---- MODULE Spec2Model ----
(***************************************************************************)
(* product_variant_unique: templates flagged unique_variant, their         *)
(* variants (product.product), the validation run by create/write, the     *)
(* propagation of 'active' in Template.write, Template.get_code and the    *)
(* two BOM tree wizard overrides (src/product.py).                         *)
(*                                                                         *)
(* Records are rows of two tables kept as sequences: the id of a record is *)
(* its index.  Searches and One2Many reads made by the code outside a      *)
(* `with Transaction().set_context(active_test=False)` block run with the  *)
(* default context, in which inactive records are filtered out; the code   *)
(* lifts the filter itself in get_code and in Template.write.              *)
(* An operation that raises leaves the tables untouched (the transaction   *)
(* is rolled back) and only records the error.                             *)
(* The size limit set on Template.products (product.py:32) rejects exactly *)
(* the template writes Template.validate rejects (both read the filtered   *)
(* collection of a flagged template), so it does not change the reachable  *)
(* tables and is not modelled as a separate step.                          *)
(***************************************************************************)
EXTENDS Integers, Sequences, FiniteSets

VARIABLES
    template,       \* table product.template: Seq of [unique_variant, active]
    product,        \* table product.product: Seq of [template, active, code]
    op,             \* the call being answered, Idle between two calls
    arg,            \* its arguments
    err,            \* the UserError it raised, NoError when it returned
    ret,            \* what it returned or handed to the default handler
    unique_before   \* Template.write: ids flagged unique_variant before the call

vars == <<template, product, op, arg, err, ret, unique_before>>

\* Bounds of the model.
MaxTemplates == 2
MaxProducts == 2
MaxBatch == 2
MaxPairs == 2

\* Python's None for a Char field, the empty string and one real code.
None == "None"
Codes == {None, "", "2"}

Idle == "idle"

NoError == ""
template_uniq == "template_uniq"
not_product_variant == "not_product_variant"

TemplateModel == "product.template"
ProductModel == "product.product"

Range(s) == {s[i] : i \in DOMAIN s}

SeqsUpTo(S, n) == UNION {[1..k -> S] : k \in 1..n}

Ids(table) == 1..Len(table)

\* Python truthiness of a Char value: None and '' are both false.
Truthy(code) == code # None /\ code # ""

(***************************************************************************)
(* Reads                                                                   *)
(***************************************************************************)

\* Product.search(domain): the default context adds ('active', '=', True).
search_active(pr, p, active_test) == active_test => pr[p].active

\* template.products: the One2Many read, in id order, filtered by the context.
products(pr, t, active_test) ==
    SelectSeq([i \in 1..Len(pr) |-> i],
              LAMBDA p : pr[p].template = t /\ search_active(pr, p, active_test))

\* Product.on_change_with_unique_variant: the flag of the owning template.
on_change_with_unique_variant(tm, pr, p) == tm[pr[p].template].unique_variant

(***************************************************************************)
(* Validation                                                              *)
(***************************************************************************)

validate_unique_template_any_flag(tm, pr, batch) ==
    LET unique_products == batch
        templates == {pr[p].template : p \in unique_products}
    IN  IF Cardinality(templates) # Cardinality(unique_products)
        THEN template_uniq
        ELSE IF \E q \in Ids(pr) :
                    /\ q \notin unique_products
                    /\ pr[q].template \in templates
                    /\ search_active(pr, q, TRUE)
             THEN template_uniq
             ELSE NoError

validate_unique_template_no_batch_check(tm, pr, batch) ==
    LET unique_products ==
            {p \in batch : on_change_with_unique_variant(tm, pr, p)}
        templates == {pr[p].template : p \in unique_products}
    IN  IF \E q \in Ids(pr) :
                /\ q \notin unique_products
                /\ pr[q].template \in templates
                /\ search_active(pr, q, TRUE)
        THEN template_uniq
        ELSE NoError

validate_unique_template_no_search(tm, pr, batch) ==
    LET unique_products ==
            {p \in batch : on_change_with_unique_variant(tm, pr, p)}
        templates == {pr[p].template : p \in unique_products}
    IN  IF Cardinality(templates) # Cardinality(unique_products)
        THEN template_uniq
        ELSE NoError

\* Product.validate_unique_template(products): the error raised, or NoError.
\* `templates` is a list in the code; it has a duplicate exactly when the
\* set of its elements is smaller than the set of products it was built from.
validate_unique_template(tm, pr, batch) ==
    LET unique_products ==
            {p \in batch : on_change_with_unique_variant(tm, pr, p)}
        templates == {pr[p].template : p \in unique_products}
    IN  IF Cardinality(templates) # Cardinality(unique_products)
        THEN template_uniq
        ELSE IF \E q \in Ids(pr) :
                    /\ q \notin unique_products
                    /\ pr[q].template \in templates
                    /\ search_active(pr, q, TRUE)
             THEN template_uniq
             ELSE NoError

\* Product.validate(products)
Product_validate(tm, pr, batch) == validate_unique_template(tm, pr, batch)

\* Template.validate(templates): forwards the first variant of every flagged
\* template that shows at least one variant.
Template_validate(tm, pr, templates) ==
    LET firsts == {Head(products(pr, t, TRUE)) :
                     t \in {u \in templates :
                              /\ tm[u].unique_variant
                              /\ products(pr, u, TRUE) # <<>>}}
    IN  IF firsts # {} THEN validate_unique_template(tm, pr, firsts)
        ELSE NoError

(***************************************************************************)
(* ModelStorage.write on a table: the (records, values) pairs in order     *)
(***************************************************************************)

SetFields(row, values) ==
    [f \in DOMAIN row |-> IF f \in DOMAIN values THEN values[f] ELSE row[f]]

WriteRows(table, ids, values) ==
    [i \in 1..Len(table) |->
        IF i \in ids THEN SetFields(table[i], values) ELSE table[i]]

RECURSIVE WritePairs(_, _)
WritePairs(table, pairs) ==
    IF pairs = <<>> THEN table
    ELSE WritePairs(WriteRows(table, Head(pairs).records, Head(pairs).values),
                    Tail(pairs))

(***************************************************************************)
(* Template.get_code                                                       *)
(***************************************************************************)

RECURSIVE first_code_any_active(_, _)
first_code_any_active(pr, ps) ==
    IF ps = <<>> THEN None
    ELSE IF Truthy(pr[Head(ps)].code)
         THEN pr[Head(ps)].code
         ELSE first_code_any_active(pr, Tail(ps))

\* The inner loop of get_code: the first product with a code that is active.
RECURSIVE first_code(_, _)
first_code(pr, ps) ==
    IF ps = <<>> THEN None
    ELSE IF Truthy(pr[Head(ps)].code) /\ pr[Head(ps)].active
         THEN pr[Head(ps)].code
         ELSE first_code(pr, Tail(ps))

get_code(tm, pr, templates) ==
    [t \in templates |->
        IF tm[t].unique_variant THEN first_code(pr, products(pr, t, FALSE))
        ELSE None]

(***************************************************************************)
(* The operations, each as the result it produces from the tables:         *)
(* [template, product, err] for the writes, [err, delegated, context] for  *)
(* the wizard overrides.  On an error the tables are the ones it started   *)
(* from.                                                                   *)
(***************************************************************************)

Result(tm0, pr0, tm, pr, e) ==
    IF e = NoError THEN [template |-> tm, product |-> pr, err |-> e]
    ELSE [template |-> tm0, product |-> pr0, err |-> e]

NewIds(table, n) == (Len(table) + 1)..(Len(table) + n)

\* Product.create(vlist): insert the rows, then Product.validate on them.
Product_create(tm, pr, vlist) ==
    LET pr2 == pr \o vlist
    IN  Result(tm, pr, tm, pr2, Product_validate(tm, pr2, NewIds(pr, Len(vlist))))

\* Product.write(products, values): update the rows, then Product.validate.
Product_write(tm, pr, pairs) ==
    LET pr2 == WritePairs(pr, pairs)
        all_records == UNION {pairs[i].records : i \in DOMAIN pairs}
    IN  Result(tm, pr, tm, pr2, Product_validate(tm, pr2, all_records))

\* Template.create([values]) with values['products'] = [('create', nested)]:
\* the template row is inserted, the nested variants are created through
\* Product.create (and validated there), then Template.validate runs.
Template_create(tm, pr, values, nested) ==
    LET tm2 == Append(tm, values)
        t == Len(tm2)
        vlist == [i \in 1..Len(nested) |->
                    [template |-> t, active |-> nested[i].active,
                     code |-> nested[i].code]]
        created == IF vlist = <<>> THEN Result(tm2, pr, tm2, pr, NoError)
                   ELSE Product_create(tm2, pr, vlist)
    IN  IF created.err # NoError THEN Result(tm, pr, tm, pr, created.err)
        ELSE Result(tm, pr, tm2, created.product,
                    Template_validate(tm2, created.product, {t}))

\* Template.write(*args): collect the variants to (de)activate from the
\* templates as they are before the write, call the base write (which
\* validates the templates), then write the variants in two batches.
Template_write(tm, pr, pairs) ==
    LET flagged(i) == {t \in pairs[i].records : tm[t].unique_variant}
        to_active_products ==
            UNION {Range(products(pr, t, FALSE)) :
                     t \in UNION {flagged(i) : i \in {j \in DOMAIN pairs :
                            /\ "active" \in DOMAIN pairs[j].values
                            /\ pairs[j].values.active}}}
        to_deactive_products ==
            UNION {{p \in Range(products(pr, t, FALSE)) : pr[p].active} :
                     t \in UNION {flagged(i) : i \in {j \in DOMAIN pairs :
                            /\ "active" \in DOMAIN pairs[j].values
                            /\ ~pairs[j].values.active}}}
        tm2 == WritePairs(tm, pairs)
        all_records == UNION {pairs[i].records : i \in DOMAIN pairs}
        e1 == Template_validate(tm2, pr, all_records)
        product_args ==
            (IF to_active_products # {}
             THEN <<[records |-> to_active_products, values |-> [active |-> TRUE]]>>
             ELSE <<>>)
            \o (IF to_deactive_products # {}
                THEN <<[records |-> to_deactive_products,
                        values |-> [active |-> FALSE]]>>
                ELSE <<>>)
    IN  IF e1 # NoError THEN Result(tm, pr, tm, pr, e1)
        ELSE IF product_args = <<>> THEN Result(tm, pr, tm2, pr, NoError)
        ELSE LET written == Product_write(tm2, pr, product_args)
             IN  Result(tm, pr, tm2, written.product, written.err)

redirect_any_variant(tm, pr, context) ==
    IF context.active_model = TemplateModel
    THEN LET variants == products(pr, context.active_id, FALSE)
         IN  IF variants = <<>>
             THEN [err |-> not_product_variant, delegated |-> FALSE,
                   context |-> context]
             ELSE [err |-> NoError, delegated |-> TRUE,
                   context |-> [active_model |-> ProductModel,
                                active_id |-> Head(variants),
                                active_ids |-> <<Head(variants)>>]]
    ELSE [err |-> NoError, delegated |-> TRUE, context |-> context]

\* The body shared by OpenReverseBOMTree.do_start and
\* OpenBOMTree.default_start: new_context and the call of the default
\* handler under it.  The flag of the template is not read.
redirect(tm, pr, context) ==
    IF context.active_model = TemplateModel
    THEN LET variants == products(pr, context.active_id, TRUE)
         IN  IF variants = <<>>
             THEN [err |-> not_product_variant, delegated |-> FALSE,
                   context |-> context]
             ELSE [err |-> NoError, delegated |-> TRUE,
                   context |-> [active_model |-> ProductModel,
                                active_id |-> Head(variants),
                                active_ids |-> <<Head(variants)>>]]
    ELSE [err |-> NoError, delegated |-> TRUE, context |-> context]

OpenBOMTree_default_start(tm, pr, context) == redirect(tm, pr, context)

\* do_start also points the action at the variant.
OpenReverseBOMTree_do_start(tm, pr, context) ==
    LET r == redirect(tm, pr, context)
    IN  [err |-> r.err, delegated |-> r.delegated, context |-> r.context,
         action |-> IF r.err = NoError /\ context.active_model = TemplateModel
                    THEN [res_model |-> ProductModel,
                          active_id |-> r.context.active_id]
                    ELSE [res_model |-> context.active_model,
                          active_id |-> context.active_id]]

(***************************************************************************)
(* Initial state: empty tables                                             *)
(***************************************************************************)

Init ==
    /\ template = <<>>
    /\ product = <<>>
    /\ op = Idle
    /\ arg = <<>>
    /\ err = NoError
    /\ ret = <<>>
    /\ unique_before = {}

(***************************************************************************)
(* Inputs                                                                  *)
(***************************************************************************)

ProductValues == [template : Ids(template), active : BOOLEAN, code : Codes]
NestedValues == [active : BOOLEAN, code : Codes]
TemplateValues == [unique_variant : BOOLEAN, active : BOOLEAN]

ProductWriteValues ==
    [active : BOOLEAN] \cup [template : Ids(template)]
        \cup [template : Ids(template), active : BOOLEAN]

TemplateWriteValues ==
    [active : BOOLEAN] \cup [unique_variant : BOOLEAN]
        \cup [unique_variant : BOOLEAN, active : BOOLEAN]

Contexts ==
    {[active_model |-> TemplateModel, active_id |-> t, active_ids |-> <<t>>] :
        t \in Ids(template)}
    \cup {[active_model |-> ProductModel, active_id |-> p, active_ids |-> <<p>>] :
            p \in Ids(product)}

(***************************************************************************)
(* Actions                                                                 *)
(***************************************************************************)

Commit(name, a, r) ==
    /\ template' = r.template
    /\ product' = r.product
    /\ op' = name
    /\ arg' = a
    /\ err' = r.err
    /\ ret' = <<>>

TemplateCreate ==
    /\ op = Idle
    /\ Len(template) < MaxTemplates
    /\ \E values \in TemplateValues :
       \E nested \in {<<>>} \cup SeqsUpTo(NestedValues, MaxBatch) :
        /\ Len(product) + Len(nested) <= MaxProducts
        /\ Commit("Template.create", [values |-> values, products |-> nested],
                  Template_create(template, product, values, nested))
        /\ unique_before' = {}

ProductCreate ==
    /\ op = Idle
    /\ \E vlist \in SeqsUpTo(ProductValues, MaxBatch) :
        /\ Len(product) + Len(vlist) <= MaxProducts
        /\ Commit("Product.create", vlist, Product_create(template, product, vlist))
        /\ unique_before' = {}

ProductWrite ==
    /\ op = Idle
    /\ \E records \in SUBSET Ids(product) \ {{}} :
       \E values \in ProductWriteValues :
        LET pairs == <<[records |-> records, values |-> values]>>
        IN  /\ Commit("Product.write", pairs, Product_write(template, product, pairs))
            /\ unique_before' = {}

TemplateWrite ==
    /\ op = Idle
    /\ \E pairs \in SeqsUpTo([records : SUBSET Ids(template) \ {{}},
                           values : TemplateWriteValues], MaxPairs) :
        /\ Commit("Template.write", pairs, Template_write(template, product, pairs))
        /\ unique_before' = {t \in Ids(template) : template[t].unique_variant}

GetCode ==
    /\ op = Idle
    /\ \E templates \in SUBSET Ids(template) \ {{}} :
        /\ op' = "Template.get_code"
        /\ arg' = templates
        /\ err' = NoError
        /\ ret' = get_code(template, product, templates)
        /\ unique_before' = {}
        /\ UNCHANGED <<template, product>>

DefaultStart ==
    /\ op = Idle
    /\ \E context \in Contexts :
        LET r == OpenBOMTree_default_start(template, product, context)
        IN  /\ op' = "OpenBOMTree.default_start"
            /\ arg' = context
            /\ err' = r.err
            /\ ret' = r
            /\ unique_before' = {}
            /\ UNCHANGED <<template, product>>

DoStart ==
    /\ op = Idle
    /\ \E context \in Contexts :
        LET r == OpenReverseBOMTree_do_start(template, product, context)
        IN  /\ op' = "OpenReverseBOMTree.do_start"
            /\ arg' = context
            /\ err' = r.err
            /\ ret' = r
            /\ unique_before' = {}
            /\ UNCHANGED <<template, product>>

\* The call has been answered: the next one starts from the tables it left.
Return ==
    /\ op # Idle
    /\ op' = Idle
    /\ arg' = <<>>
    /\ err' = NoError
    /\ ret' = <<>>
    /\ unique_before' = {}
    /\ UNCHANGED <<template, product>>

Next ==
    \/ TemplateCreate
    \/ ProductCreate
    \/ ProductWrite
    \/ TemplateWrite
    \/ GetCode
    \/ DefaultStart
    \/ DoStart
    \/ Return

Spec == Init /\ [][Next]_vars

(***************************************************************************)
(* Properties                                                              *)
(***************************************************************************)

Min(S) == CHOOSE x \in S : \A y \in S : x <= y

\* All the variants of template t, inactive ones included.
Variants(t) == {p \in Ids(product) : product[p].template = t}

ActiveVariants(t) == {p \in Variants(t) : product[p].active}

Flagged(t) == template[t].unique_variant

Wizards == {"OpenBOMTree.default_start", "OpenReverseBOMTree.do_start"}

\* The rows Product.create or Product.write handed to Product.validate, in
\* the table as written: [table, batch].
ValidatedBatch ==
    IF op = "Product.create"
    THEN LET table == IF err = NoError THEN product ELSE product \o arg
         IN  [table |-> table, batch |-> (Len(table) - Len(arg) + 1)..Len(table)]
    ELSE [table |-> WritePairs(product, arg),
          batch |-> UNION {arg[i].records : i \in DOMAIN arg}]

\* Two active variants of one flagged template.
TwoActive(tm, pr) ==
    \E p, q \in Ids(pr) :
        /\ p < q
        /\ pr[p].template = pr[q].template
        /\ pr[p].active /\ pr[q].active
        /\ tm[pr[p].template].unique_variant

\* The tables the call being answered asked for: the tables themselves when
\* it returned, and what its writes would have left when it raised.
Attempted ==
    IF err = NoError THEN [template |-> template, product |-> product]
    ELSE IF op = "Product.create"
    THEN [template |-> template, product |-> product \o arg]
    ELSE IF op = "Product.write"
    THEN [template |-> template, product |-> WritePairs(product, arg)]
    ELSE IF op = "Template.create"
    THEN [template |-> Append(template, arg.values),
          product |-> product \o
              [i \in 1..Len(arg.products) |->
                  [template |-> Len(template) + 1,
                   active |-> arg.products[i].active,
                   code |-> arg.products[i].code]]]
    ELSE LET set_to(b) ==
                {p \in Ids(product) :
                    /\ Flagged(product[p].template)
                    /\ \E i \in DOMAIN arg :
                        /\ "active" \in DOMAIN arg[i].values
                        /\ arg[i].values.active = b
                        /\ product[p].template \in arg[i].records}
         IN  [template |-> WritePairs(template, arg),
              product |-> [p \in 1..Len(product) |->
                  IF p \in set_to(FALSE) /\ product[p].active
                  THEN [product[p] EXCEPT !.active = FALSE]
                  ELSE IF p \in set_to(TRUE)
                  THEN [product[p] EXCEPT !.active = TRUE]
                  ELSE product[p]]]

Writes == {"Template.create", "Product.create", "Product.write", "Template.write"}

\* C1 (as claimed): every template flagged unique_variant has at most one
\* variant, inactive variants counted.
C1_AtMostOneVariant ==
    \A t \in Ids(template) : Flagged(t) => Cardinality(Variants(t)) <= 1

\* C2 (as claimed): Product.create of a single variant on a flagged template
\* that already has a variant, active or not, raises template_uniq.
C2_CreateOnOccupiedTemplate ==
    (/\ op = "Product.create"
     /\ Len(arg) = 1
     /\ Flagged(arg[1].template)
     /\ \E q \in 1..(Len(ValidatedBatch.table) - 1) :
            ValidatedBatch.table[q].template = arg[1].template)
        => err = template_uniq

C4_DuplicateInBatch ==
    (/\ op \in {"Product.create", "Product.write"}
     /\ \E p, q \in ValidatedBatch.batch :
            /\ p # q
            /\ ValidatedBatch.table[p].template = ValidatedBatch.table[q].template
            /\ Flagged(ValidatedBatch.table[p].template))
        => err = template_uniq

C4_Witness ==
    /\ op = "Product.create"
    /\ Len(arg) = 2
    /\ arg[1].template = arg[2].template
    /\ Flagged(arg[1].template)
    /\ err = template_uniq

\* C5: Product.create of a batch whose variants all belong to templates that
\* are not flagged never raises.
C5_NonFlaggedCreateSucceeds ==
    (/\ op = "Product.create"
     /\ \A i \in DOMAIN arg : ~Flagged(arg[i].template))
        => err = NoError

C5_Witness ==
    /\ op = "Product.create"
    /\ Len(arg) = 2
    /\ arg[1].template = arg[2].template
    /\ ~Flagged(arg[1].template)
    /\ \E t \in Ids(template) : Flagged(t) /\ t # arg[1].template
    /\ err = NoError
    /\ Len(product) = 2

\* C6 (as claimed): after a Template.write that returned, every variant of a
\* flagged template written with 'active' has the template's active value.
C6_ActivePropagated ==
    (op = "Template.write" /\ err = NoError) =>
        \A i \in DOMAIN arg :
            "active" \in DOMAIN arg[i].values =>
                \A t \in arg[i].records :
                    (t \in unique_before /\ Flagged(t)) =>
                        \A p \in Variants(t) :
                            product[p].active = template[t].active

\* C7 (as claimed): get_code gives, for a flagged template, the code of its
\* first active variant, None when it has no active variant, and None for a
\* template that is not flagged.
C7_FirstActiveCode ==
    op = "Template.get_code" =>
        \A t \in arg :
            ret[t] = IF Flagged(t) /\ ActiveVariants(t) # {}
                     THEN product[Min(ActiveVariants(t))].code
                     ELSE None

\* Variants of t that are active and hold a non-empty code.
CodedVariants(t) ==
    {p \in ActiveVariants(t) : product[p].code \notin {None, ""}}

\* C7 (amended): get_code gives, for a flagged template, the code of its
\* first variant that is active and has a non-empty code, None when it has
\* none, and None for a template that is not flagged.
C7_FirstActiveNonEmptyCode ==
    op = "Template.get_code" =>
        \A t \in arg :
            ret[t] = IF Flagged(t) /\ CodedVariants(t) # {}
                     THEN product[Min(CodedVariants(t))].code
                     ELSE None

C7_Witness ==
    /\ op = "Template.get_code"
    /\ \E t \in arg :
        /\ Flagged(t)
        /\ CodedVariants(t) # {}
        /\ \E p \in Variants(t) :
            /\ p < Min(CodedVariants(t))
            /\ ~product[p].active
            /\ product[p].code \notin {None, ""}
        /\ ret[t] = product[Min(CodedVariants(t))].code

\* C8 (as claimed): a wizard called on something that is not a template, or
\* on a template that is not flagged, hands the context over unchanged and
\* does not raise.
C8_NoEffectUnlessFlagged ==
    (/\ op \in Wizards
     /\ \/ arg.active_model # TemplateModel
        \/ ~Flagged(arg.active_id))
        => (err = NoError /\ ret.delegated /\ ret.context = arg)

\* The context a wizard hands over when it redirects to variant p.
Redirected(p) ==
    [active_model |-> ProductModel, active_id |-> p, active_ids |-> <<p>>]

\* C9 (as claimed): a wizard called on a flagged template redirects to the
\* template's first variant when it has one, and raises not_product_variant
\* without delegating when it has none.
C9_RedirectToFirstVariant ==
    (/\ op \in Wizards
     /\ arg.active_model = TemplateModel
     /\ Flagged(arg.active_id))
        => IF Variants(arg.active_id) # {}
           THEN /\ err = NoError
                /\ ret.delegated
                /\ ret.context = Redirected(Min(Variants(arg.active_id)))
           ELSE err = not_product_variant /\ ~ret.delegated

\* C9 (amended): a wizard called on a flagged template redirects to the
\* template's first active variant when it has one, and raises
\* not_product_variant without delegating when it has no active variant.
C9_RedirectToFirstActiveVariant ==
    (/\ op \in Wizards
     /\ arg.active_model = TemplateModel
     /\ Flagged(arg.active_id))
        => IF ActiveVariants(arg.active_id) # {}
           THEN /\ err = NoError
                /\ ret.delegated
                /\ ret.context = Redirected(Min(ActiveVariants(arg.active_id)))
           ELSE err = not_product_variant /\ ~ret.delegated

C9_Witness ==
    /\ op \in Wizards
    /\ arg.active_model = TemplateModel
    /\ Flagged(arg.active_id)
    /\ ActiveVariants(arg.active_id) # {}
    /\ Min(Variants(arg.active_id)) < Min(ActiveVariants(arg.active_id))
    /\ err = NoError
    /\ ret.context = Redirected(Min(ActiveVariants(arg.active_id)))

\* C10 (as claimed): a single Template.write carrying 'active' leaves every
\* variant of each written template that was flagged before the write, or is
\* flagged by it, with the written value.
C10_PropagatedWhenFlaggedByWrite ==
    (/\ op = "Template.write"
     /\ err = NoError
     /\ Len(arg) = 1
     /\ "active" \in DOMAIN arg[1].values)
        => \A t \in arg[1].records :
              (t \in unique_before \/ Flagged(t)) =>
                  \A p \in Variants(t) : product[p].active = arg[1].values.active

====
